---------------------------- MODULE Spec2Model ----------------------------
(***************************************************************************)
(* SnapChess CV service (apps/api/cv-model): position assembly             *)
(* (fen_generator.py), board location and splitting (board_detector.py)    *)
(* and the two request handlers (main.py).                                 *)
(*                                                                         *)
(* Conventions.  Python lists are sequences; the Python index i is the     *)
(* sequence position i + 1 (operator At).  A Python str is a sequence of   *)
(* one-character strings, so that it can be split and re-parsed; Str       *)
(* joins it into a TLA+ string.  Confidences are ten-thousandths           *)
(* (0.9 is 9000).  None is the string "None".                             *)
(***************************************************************************)
EXTENDS Integers, Sequences, FiniteSets, TLC

VARIABLES
    pc,               \* position of the call under study: "call", "done"
    raised,           \* the exception that left the call, or None
    classifications,  \* argument of classifications_to_fen
    result,           \* its return value (a PositionResult record) or NoValue
    pts,              \* argument of _warp_board: the 4 corners of a quad
    rect,             \* the corners as _order_corners orders them
    board_image,      \* argument of split_into_squares: [h, w]
    squares,          \* its return value
    session,          \* classifier.session: None or the loaded model
    request,          \* an upload: content type, bytes decodable, image
    response          \* the HTTP response to it

vars ==
    <<pc, raised, classifications, result, pts, rect, board_image, squares,
      session, request, response>>

None == "None"

\* None in a place that otherwise holds a record (a record itself, so that
\* the two compare)
NoValue == [none |-> TRUE]

--------------------------------------------------------------------------
(* Python helpers *)

At(seq, i) == seq[i + 1]

Range(seq) == {seq[i] : i \in 1..Len(seq)}

\* "".join(chars), by halves to keep the evaluation shallow
RECURSIVE Str(_)
Str(chars) ==
    IF chars = <<>> THEN ""
    ELSE IF Len(chars) = 1 THEN chars[1]
    ELSE LET h == Len(chars) \div 2
         IN  Str(SubSeq(chars, 1, h)) \o Str(SubSeq(chars, h + 1, Len(chars)))

DigitChars == <<"0", "1", "2", "3", "4", "5", "6", "7", "8", "9">>

\* str(n) of a non-negative int, as a sequence of characters
RECURSIVE PyStr(_)
PyStr(n) ==
    IF n < 10 THEN <<DigitChars[n + 1]>>
    ELSE PyStr(n \div 10) \o <<DigitChars[(n % 10) + 1]>>

\* sum(seq), by halves to keep the evaluation shallow
RECURSIVE SumSeq(_)
SumSeq(seq) ==
    IF seq = <<>> THEN 0
    ELSE IF Len(seq) = 1 THEN seq[1]
    ELSE LET h == Len(seq) \div 2
         IN  SumSeq(SubSeq(seq, 1, h)) + SumSeq(SubSeq(seq, h + 1, Len(seq)))

\* str.split(sep) for a one-character sep: the pieces between separators
RECURSIVE SplitOn(_, _)
SplitOn(chars, sep) ==
    IF \A i \in 1..Len(chars) : chars[i] # sep THEN <<chars>>
    ELSE LET k == CHOOSE i \in 1..Len(chars) :
                      /\ chars[i] = sep
                      /\ \A j \in 1..(i - 1) : chars[j] # sep
         IN  <<SubSeq(chars, 1, k - 1)>>
                 \o SplitOn(SubSeq(chars, k + 1, Len(chars)), sep)

\* str.split(): pieces between runs of blanks, empty pieces dropped
SplitBlank(chars) == SelectSeq(SplitOn(chars, " "), LAMBDA p : p # <<>>)

--------------------------------------------------------------------------
(* fen_generator.py: tables *)

CLASSES ==
    <<"empty", "wp", "wn", "wb", "wr", "wq", "wk",
      "bp", "bn", "bb", "br", "bq", "bk">>

PIECE_TO_FEN ==
    [empty |-> None,
     wp |-> "P", wn |-> "N", wb |-> "B", wr |-> "R", wq |-> "Q", wk |-> "K",
     bp |-> "p", bn |-> "n", bb |-> "b", br |-> "r", bq |-> "q", bk |-> "k"]

\* dict.get: None for a key the table does not hold
PieceToFenGet(piece_class) ==
    IF piece_class \in DOMAIN PIECE_TO_FEN THEN PIECE_TO_FEN[piece_class]
    ELSE None

\* python-chess square numbers: a1 = 0, b1 = 1, ..., h8 = 63
SQUARES_A8_TO_H1 ==
    <<56, 57, 58, 59, 60, 61, 62, 63,
      48, 49, 50, 51, 52, 53, 54, 55,
      40, 41, 42, 43, 44, 45, 46, 47,
      32, 33, 34, 35, 36, 37, 38, 39,
      24, 25, 26, 27, 28, 29, 30, 31,
      16, 17, 18, 19, 20, 21, 22, 23,
       8,  9, 10, 11, 12, 13, 14, 15,
       0,  1,  2,  3,  4,  5,  6,  7>>

FILE_NAMES == <<"a", "b", "c", "d", "e", "f", "g", "h">>

RANK_NAMES == <<"1", "2", "3", "4", "5", "6", "7", "8">>

\* chess.square_name(sq) = FILE_NAMES[sq & 7] + RANK_NAMES[sq >> 3]
square_name(sq) == At(FILE_NAMES, sq % 8) \o At(RANK_NAMES, sq \div 8)

--------------------------------------------------------------------------
(* classifications_to_fen: piece placement (lines 44-66) *)

\* the inner loop over the files of one rank, from `file` on
RECURSIVE FileLoop(_, _, _, _, _)
FileLoop(cls, rank, file, row, empty_count) ==
    IF file = 8
    THEN IF empty_count > 0 THEN row \o PyStr(empty_count) ELSE row
    ELSE LET idx      == rank * 8 + file
             fen_char == PieceToFenGet(At(cls, idx).class)
         IN  IF fen_char = None
             THEN FileLoop(cls, rank, file + 1, row, empty_count + 1)
             ELSE IF empty_count > 0
                  THEN FileLoop(cls, rank, file + 1,
                                row \o PyStr(empty_count) \o <<fen_char>>, 0)
                  ELSE FileLoop(cls, rank, file + 1, row \o <<fen_char>>, 0)

\* the same loop with the reset of empty_count after a piece left out
RECURSIVE FileLoopNoReset(_, _, _, _, _)
FileLoopNoReset(cls, rank, file, row, empty_count) ==
    IF file = 8
    THEN IF empty_count > 0 THEN row \o PyStr(empty_count) ELSE row
    ELSE LET idx      == rank * 8 + file
             fen_char == PieceToFenGet(At(cls, idx).class)
         IN  IF fen_char = None
             THEN FileLoopNoReset(cls, rank, file + 1, row, empty_count + 1)
             ELSE IF empty_count > 0
                  THEN FileLoopNoReset(cls, rank, file + 1,
                           row \o PyStr(empty_count) \o <<fen_char>>,
                           empty_count)
                  ELSE FileLoopNoReset(cls, rank, file + 1,
                                       row \o <<fen_char>>, 0)

EncodeRankNoReset(cls, rank) == FileLoopNoReset(cls, rank, 0, <<>>, 0)

\* one pass of the outer loop: the row of rank index `rank` (0 is rank 8)
EncodeRank(cls, rank) == FileLoop(cls, rank, 0, <<>>, 0)

\* "/".join(rows)
RECURSIVE JoinSlash(_)
JoinSlash(rows) ==
    IF Len(rows) = 0 THEN <<>>
    ELSE IF Len(rows) = 1 THEN rows[1]
    ELSE rows[1] \o <<"/">> \o JoinSlash(Tail(rows))

piece_placement(cls) ==
    JoinSlash([r \in 1..8 |-> EncodeRank(cls, r - 1)])

--------------------------------------------------------------------------
(* _guess_turn, _guess_castling *)

_guess_turn(cls) == "w"

\* e1 and a1 tested where the code tests e1 and h1, and the reverse
_guess_castling_swapped(cls) ==
    LET K == IF At(cls, 60).class = "wk" /\ At(cls, 56).class = "wr"
             THEN <<"K">> ELSE <<>>
        Q == IF At(cls, 60).class = "wk" /\ At(cls, 63).class = "wr"
             THEN <<"Q">> ELSE <<>>
        k == IF At(cls, 4).class = "bk" /\ At(cls, 7).class = "br"
             THEN <<"k">> ELSE <<>>
        q == IF At(cls, 4).class = "bk" /\ At(cls, 0).class = "br"
             THEN <<"q">> ELSE <<>>
        rights == K \o Q \o k \o q
    IN  IF rights # <<>> THEN rights ELSE <<"-">>

_guess_castling(cls) ==
    LET K == IF At(cls, 60).class = "wk" /\ At(cls, 63).class = "wr"
             THEN <<"K">> ELSE <<>>
        Q == IF At(cls, 60).class = "wk" /\ At(cls, 56).class = "wr"
             THEN <<"Q">> ELSE <<>>
        k == IF At(cls, 4).class = "bk" /\ At(cls, 7).class = "br"
             THEN <<"k">> ELSE <<>>
        q == IF At(cls, 4).class = "bk" /\ At(cls, 0).class = "br"
             THEN <<"q">> ELSE <<>>
        rights == K \o Q \o k \o q
    IN  IF rights # <<>> THEN rights ELSE <<"-">>

\* f"{piece_placement} {turn} {castling} - 0 1"
AssembleFen(cls) ==
    piece_placement(cls) \o <<" ">> \o <<_guess_turn(cls)>> \o <<" ">>
        \o _guess_castling(cls) \o <<" ", "-", " ", "0", " ", "1">>

--------------------------------------------------------------------------
(* chess.Board(fen) of python-chess, as _validate_position uses it        *)
(* (line 144): set_fen splits the string on blanks, checks the turn, the  *)
(* castling, the en-passant and the two counter fields, and               *)
(* _set_board_fen checks the rows and fills the squares in a8..h1 order.  *)

PIECE_SYMBOLS == {"p", "n", "b", "r", "q", "k"}

LowerOf ==
    [P |-> "p", N |-> "n", B |-> "b", R |-> "r", Q |-> "q", K |-> "k",
     p |-> "p", n |-> "n", b |-> "b", r |-> "r", q |-> "q", k |-> "k"]

IsPieceChar(c) == c \in DOMAIN LowerOf

IsRowDigit(c) == c \in {"1", "2", "3", "4", "5", "6", "7", "8"}

DigitValue(c) == CHOOSE d \in 0..9 : DigitChars[d + 1] = c

\* the squares one row of the board part fills, left to right
RECURSIVE ExpandRow(_)
ExpandRow(row) ==
    IF row = <<>> THEN <<>>
    ELSE IF IsRowDigit(Head(row))
         THEN [i \in 1..DigitValue(Head(row)) |-> None] \o ExpandRow(Tail(row))
         ELSE <<Head(row)>> \o ExpandRow(Tail(row))

\* _set_board_fen's validation of one row
RowValid(row) ==
    /\ \A i \in 1..Len(row) : IsRowDigit(row[i]) \/ IsPieceChar(row[i])
    /\ \A i \in 1..(Len(row) - 1) :
           ~(IsRowDigit(row[i]) /\ IsRowDigit(row[i + 1]))
    /\ Len(ExpandRow(row)) = 8

BoardPartValid(board_part) ==
    LET rows == SplitOn(board_part, "/")
    IN  /\ Len(rows) = 8
        /\ \A r \in 1..8 : RowValid(rows[r])

\* FEN_CASTLING_REGEX: "-" or at most two upper then at most two lower
CastlingPartValid(part) ==
    \/ part = <<"-">>
    \/ \E u \in 0..2 :
           /\ u <= Len(part)
           /\ Len(part) - u <= 2
           /\ \A i \in 1..u :
                  part[i] \in {"K", "Q", "A", "B", "C", "D", "E", "F", "G", "H"}
           /\ \A i \in (u + 1)..Len(part) :
                  part[i] \in {"k", "q", "a", "b", "c", "d", "e", "f", "g", "h"}

IsNumber(part) ==
    /\ part # <<>>
    /\ \A i \in 1..Len(part) : part[i] \in Range(DigitChars)

EpPartValid(part) ==
    \/ part = <<"-">>
    \/ /\ Len(part) = 2
       /\ part[1] \in Range(FILE_NAMES)
       /\ part[2] \in {"3", "6"}

\* whether set_fen accepts the string (it raises ValueError otherwise)
FenValid(fen) ==
    LET parts == SplitBlank(fen)
    IN  /\ Len(parts) = 6
        /\ BoardPartValid(parts[1])
        /\ parts[2] \in {<<"w">>, <<"b">>}
        /\ CastlingPartValid(parts[3])
        /\ EpPartValid(parts[4])
        /\ IsNumber(parts[5])
        /\ IsNumber(parts[6])

\* the 64 squares of an accepted string in a8..h1 order (SQUARES_180)
Squares180(fen) ==
    LET rows == SplitOn(SplitBlank(fen)[1], "/")
    IN  ExpandRow(rows[1]) \o ExpandRow(rows[2]) \o ExpandRow(rows[3])
            \o ExpandRow(rows[4]) \o ExpandRow(rows[5]) \o ExpandRow(rows[6])
            \o ExpandRow(rows[7]) \o ExpandRow(rows[8])

\* square_mirror(sq) = sq ^ 0x38
square_mirror(sq) == (7 - (sq \div 8)) * 8 + (sq % 8)

\* chess.Board(fen): piece symbol (or None) by python-chess square number
ChessBoard(fen) ==
    LET filled == Squares180(fen)
    IN  [sq \in 0..63 |-> At(filled, square_mirror(sq))]

WHITE == TRUE

BLACK == FALSE

\* python-chess piece types PAWN..KING are 1..6
PIECE_TYPES == <<"p", "n", "b", "r", "q", "k">>

UpperOf ==
    [p |-> "P", n |-> "N", b |-> "B", r |-> "R", q |-> "Q", k |-> "K"]

\* board.pieces(piece_type, color): the squares that hold that piece
pieces(board, piece_type, color) ==
    {sq \in 0..63 :
        board[sq] = (IF color = WHITE THEN UpperOf[piece_type] ELSE piece_type)}

\* piece = board.piece_at(sq); piece and piece.piece_type == chess.PAWN
IsPawnAt(board, sq) == board[sq] # None /\ LowerOf[board[sq]] = "p"

--------------------------------------------------------------------------
(* _validate_position (lines 139-180) *)

\* lines 150-156, with the second test made an elif
KingErrorsElif(board) ==
    LET white_kings == Cardinality(pieces(board, "k", WHITE))
        black_kings == Cardinality(pieces(board, "k", BLACK))
    IN  IF white_kings # 1
        THEN <<"Expected 1 white king, found " \o Str(PyStr(white_kings))>>
        ELSE IF black_kings # 1
        THEN <<"Expected 1 black king, found " \o Str(PyStr(black_kings))>>
        ELSE <<>>

\* lines 150-156
KingErrors(board) ==
    LET white_kings == Cardinality(pieces(board, "k", WHITE))
        black_kings == Cardinality(pieces(board, "k", BLACK))
    IN  (IF white_kings # 1
         THEN <<"Expected 1 white king, found " \o Str(PyStr(white_kings))>>
         ELSE <<>>)
        \o
        (IF black_kings # 1
         THEN <<"Expected 1 black king, found " \o Str(PyStr(black_kings))>>
         ELSE <<>>)

\* the loop of lines 159-162 (first = 0) or 164-167 (first = 56)
RECURSIVE PawnLoop(_, _, _, _)
PawnLoop(board, sq, last, prefix) ==
    IF sq > last THEN <<>>
    ELSE (IF IsPawnAt(board, sq)
          THEN <<prefix \o square_name(sq)>> ELSE <<>>)
         \o PawnLoop(board, sq + 1, last, prefix)

\* lines 159-167 with the two ranges exchanged
BackRankErrorsExchanged(board) ==
    PawnLoop(board, 56, 63, "Pawn on rank 1: ")
        \o PawnLoop(board, 0, 7, "Pawn on rank 8: ")

\* lines 159-167
BackRankErrors(board) ==
    PawnLoop(board, 0, 7, "Pawn on rank 1: ")
        \o PawnLoop(board, 56, 63, "Pawn on rank 8: ")

MAX_PAWNS == 8

MAX_PIECES == 16

\* the body of the loop of lines 170-178 for one colour
CountErrors(board, color) ==
    LET color_name == IF color = WHITE THEN "White" ELSE "Black"
        pawns == Cardinality(pieces(board, "p", color))
        total == SumSeq([t \in 1..6 |->
                            Cardinality(pieces(board, PIECE_TYPES[t], color))])
    IN  (IF pawns > MAX_PAWNS
         THEN <<color_name \o " has " \o Str(PyStr(pawns)) \o " pawns (max 8)">>
         ELSE <<>>)
        \o
        (IF total > MAX_PIECES
         THEN <<color_name \o " has " \o Str(PyStr(total)) \o " pieces (max 16)">>
         ELSE <<>>)

_validate_position(fen) ==
    IF ~FenValid(fen) THEN <<"Invalid FEN: " \o Str(fen)>>
    ELSE LET board == ChessBoard(fen)
         IN  KingErrors(board) \o BackRankErrors(board)
                 \o CountErrors(board, WHITE) \o CountErrors(board, BLACK)

--------------------------------------------------------------------------
(* classifications_to_fen (lines 23-100) *)

EXPECTED_COUNT == 64

\* line 41 with < where the code has !=
WrongCountBelow(cls) == Len(cls) < EXPECTED_COUNT

\* line 41
WrongCount(cls) == Len(cls) # EXPECTED_COUNT

\* 0.9 in ten-thousandths (line 87)
LOW_CONFIDENCE == 9000

\* line 81
square_names == [i \in 1..64 |-> square_name(SQUARES_A8_TO_H1[i])]

\* a dict as the sequence of its <<key, value>> items: a key keeps the
\* place of its first insertion and the value of its last
DictOf(items) ==
    LET n     == Len(items)
        first == SelectSeq([i \in 1..n |-> i],
                           LAMBDA i : \A j \in 1..(i - 1) :
                                          items[j][1] # items[i][1])
        LastOf(key) == CHOOSE i \in 1..n :
                           /\ items[i][1] = key
                           /\ \A j \in (i + 1)..n : items[j][1] # key
    IN  [k \in 1..Len(first) |->
            <<items[first[k]][1], items[LastOf(items[first[k]][1])][2]>>]

\* lines 82-84
SquareConfidences(cls) ==
    DictOf([i \in 1..64 |-> <<square_names[i], cls[i].confidence>>])

\* lines 86-88 with <= where the code has <
LowConfidenceLe(square_confidences) ==
    LET low == SelectSeq(square_confidences,
                         LAMBDA item : item[2] <= LOW_CONFIDENCE)
    IN  [i \in 1..Len(low) |-> low[i][1]]

\* lines 86-88
LowConfidence(square_confidences) ==
    LET low == SelectSeq(square_confidences,
                         LAMBDA item : item[2] < LOW_CONFIDENCE)
    IN  [i \in 1..Len(low) |-> low[i][1]]

\* line 98 with `and` where the code has `or`
NeedsReviewAnd(low_confidence, validation_errors) ==
    Len(low_confidence) > 0 /\ Len(validation_errors) > 0

\* line 98
NeedsReview(low_confidence, validation_errors) ==
    Len(low_confidence) > 0 \/ Len(validation_errors) > 0

\* the call: what it raises (or None) and what it returns (or None)
classifications_to_fen(cls) ==
    IF WrongCount(cls)
    THEN [raised |-> "ValueError", value |-> NoValue]
    ELSE LET fen == AssembleFen(cls)
             confidences == [i \in 1..Len(cls) |-> cls[i].confidence]
             square_confidences == SquareConfidences(cls)
             low_confidence == LowConfidence(square_confidences)
             validation_errors == _validate_position(fen)
         IN  [raised |-> None,
              value |->
                [fen |-> fen,
                 \* np.mean as the exact fraction num / den
                 confidence |-> [num |-> SumSeq(confidences),
                                 den |-> Len(confidences)],
                 square_confidences |-> square_confidences,
                 low_confidence_squares |-> low_confidence,
                 needs_review |->
                     NeedsReview(low_confidence, validation_errors),
                 validation_errors |-> validation_errors]]

--------------------------------------------------------------------------
(* Arguments the assembler is called with *)

\* how far a list's length departs from 64
MaxExtra == 1

\* 1.0 in ten-thousandths
FULL == LOW_CONFIDENCE + 1000

ConfLevels == {8999, LOW_CONFIDENCE, FULL}

Labels == Range(CLASSES)

Cls(class, confidence) == [class |-> class, confidence |-> confidence]

EmptyLabels == [i \in 1..64 |-> "empty"]

StartLabels ==
    <<"br", "bn", "bb", "bq", "bk", "bb", "bn", "br">>
        \o [i \in 1..8 |-> "bp"]
        \o [i \in 1..32 |-> "empty"]
        \o [i \in 1..8 |-> "wp"]
        \o <<"wr", "wn", "wb", "wq", "wk", "wb", "wn", "wr">>

BaseLabels == {EmptyLabels, StartLabels}

Uniform(labels, c) == [i \in 1..Len(labels) |-> Cls(labels[i], c)]

\* a base position at one confidence
UniformInputs == {Uniform(b, c) : b \in BaseLabels, c \in ConfLevels}

\* a base position with one square set to any label at any confidence
OneEditInputs ==
    {[Uniform(b, FULL) EXCEPT ![i] = Cls(l, c)] :
        b \in BaseLabels, i \in 1..64, l \in Labels, c \in ConfLevels}

RowLabels == {"empty", "wp", "bk"}

\* an empty board whose rank 8 holds every row over RowLabels
RowInputs ==
    {[i \in 1..64 |-> Cls(IF i <= 8 THEN row[i] ELSE "empty", FULL)] :
        row \in [1..8 -> RowLabels]}

CornerIndexes == <<0, 4, 7, 56, 60, 63>>

\* per castling square: the piece that grants the right, nothing, or the
\* same piece of the other colour
CornerChoices ==
    <<{"br", "empty", "wr"}, {"bk", "empty", "wk"}, {"br", "empty", "wr"},
      {"wr", "empty", "br"}, {"wk", "empty", "bk"}, {"wr", "empty", "br"}>>

\* an empty board with the six castling squares set every such way
CastlingInputs ==
    {[i \in 1..64 |->
        Cls(IF \E n \in 1..6 : CornerIndexes[n] = i - 1
            THEN at[CHOOSE n \in 1..6 : CornerIndexes[n] = i - 1]
            ELSE "empty", FULL)] :
        at \in {f \in [1..6 -> {"empty", "wk", "wr", "bk", "br"}] :
                   \A n \in 1..6 : f[n] \in CornerChoices[n]}}

EditSquares == {1, 5, 29, 61, 64}

EditLabels == {"empty", "wp", "bp", "wk", "bk"}

\* the starting position with two squares changed
TwoEditInputs ==
    {[Uniform(StartLabels, FULL) EXCEPT ![i] = Cls(l, FULL),
                                        ![j] = Cls(m, FULL)] :
        i \in EditSquares, j \in EditSquares \ {1}, l \in EditLabels,
        m \in EditLabels}

ConfSquares == {1, 2, 8, 9, 36, 64}

\* the starting position with confidences just below the cutoff on some
\* squares and at the cutoff on the others
ConfInputs ==
    {[i \in 1..64 |-> Cls(StartLabels[i], IF i \in low THEN 8999 ELSE c)] :
        low \in SUBSET ConfSquares, c \in {LOW_CONFIDENCE, FULL}}

\* lists that are too short or too long
RECURSIVE Repeat(_, _)
Repeat(x, n) == IF n = 0 THEN <<>> ELSE <<x>> \o Repeat(x, n - 1)

WrongLengthInputs ==
    {SubSeq(Uniform(b, c), 1, n) :
        b \in BaseLabels, c \in ConfLevels,
        n \in {0, 1, 32} \cup ((64 - MaxExtra - 1)..63)}
    \cup
    {Uniform(b, c) \o Repeat(Cls(l, c), k) :
        b \in BaseLabels, c \in ConfLevels, l \in {"empty", "wk"},
        k \in 1..(MaxExtra + 1)}

Inputs ==
    UniformInputs \cup OneEditInputs \cup RowInputs \cup CastlingInputs
        \cup TwoEditInputs \cup ConfInputs \cup WrongLengthInputs

--------------------------------------------------------------------------
(* board_detector.py: _order_corners (lines 195-207) *)

\* the board side find_board's strategies resize and warp to
BOARD_SIDE == 512

\* np.argmin / np.argmax: the first index (from 0) of the least / greatest
argmin(values) ==
    CHOOSE i \in 0..(Len(values) - 1) :
        /\ \A j \in 0..(Len(values) - 1) : At(values, i) <= At(values, j)
        /\ \A j \in 0..(i - 1) : At(values, j) > At(values, i)

argmax(values) ==
    CHOOSE i \in 0..(Len(values) - 1) :
        /\ \A j \in 0..(Len(values) - 1) : At(values, i) >= At(values, j)
        /\ \A j \in 0..(i - 1) : At(values, j) < At(values, i)

\* one row of pts.sum(axis=1): x + y
RowSum(p) == p[1] + p[2]

\* np.diff with the operands exchanged: x - y
RowDiffReversed(p) == p[1] - p[2]

\* one row of np.diff(pts, axis=1): y - x
RowDiff(p) == p[2] - p[1]

\* rect as <<top-left, top-right, bottom-right, bottom-left>>
_order_corners(points) ==
    LET s == [i \in 1..Len(points) |-> RowSum(points[i])]
        d == [i \in 1..Len(points) |-> RowDiff(points[i])]
    IN  <<At(points, argmin(s)), At(points, argmin(d)),
          At(points, argmax(s)), At(points, argmax(d))>>

--------------------------------------------------------------------------
(* board_detector.py: split_into_squares (lines 210-222) *)

Min(a, b) == IF a < b THEN a ELSE b

Max(a, b) == IF a > b THEN a ELSE b

\* numpy's a[lo:hi] on an axis of length n, for 0 <= lo <= hi: the bounds
\* are clipped to n
Slice(lo, hi, n) == [lo |-> Min(lo, n), hi |-> Min(hi, n)]

\* lines 217-219 with row and column exchanged
SquareRegionTransposed(board, row, col, square_size) ==
    LET y == col * square_size
        x == row * square_size
    IN  [rows |-> Slice(y, y + square_size, board.h),
         cols |-> Slice(x, x + square_size, board.w)]

\* lines 217-219: the region board_image[y : y + size, x : x + size]
SquareRegion(board, row, col, square_size) ==
    LET y == row * square_size
        x == col * square_size
    IN  [rows |-> Slice(y, y + square_size, board.h),
         cols |-> Slice(x, x + square_size, board.w)]

IsEmptyRegion(region) ==
    region.rows.hi <= region.rows.lo \/ region.cols.hi <= region.cols.lo

CELL_SIDE == 64

\* cv2.resize(src, (side, side)): an image of that side cut from `region`
Resized(region, side) == [h |-> side, w |-> side, from |-> region]

\* the call: cv2.resize raises cv2.error on an empty source, which ends
\* the loop and the call
split_into_squares(board) ==
    LET square_size == board.h \div 8
        region(i) == SquareRegion(board, i \div 8, i % 8, square_size)
    IN  IF \E i \in 0..63 : IsEmptyRegion(region(i))
        THEN [raised |-> "cv2.error", value |-> <<>>]
        ELSE [raised |-> None,
              value |-> [i \in 1..64 |-> Resized(region(i - 1), CELL_SIDE)]]

--------------------------------------------------------------------------
(* board_detector.py: the three strategies and find_board                 *)
(*                                                                         *)
(* An image is [h, w, contours, lines, variance]: its size and what the    *)
(* OpenCV calls find in it.  contours is the list cv2.findContours         *)
(* returns, each [area, quad, nverts, bw, bh] (cv2.contourArea, the        *)
(* polygon approxPolyDP gives and its vertex count, the boundingRect       *)
(* width and height).  lines is the list of segments <<x1, y1, x2, y2>>    *)
(* of cv2.HoughLinesP, the empty list standing for the None it returns     *)
(* when it finds none.  variance is [low, high, win]:                      *)
(* np.var of a block of the grid of _find_board_by_crop is high inside     *)
(* the window win = [r0, r1, c0, c1] of blocks and low outside.            *)

\* _warp_board (lines 183-192): the quad, ordered, warped to 512 x 512
_warp_board(image, corners) ==
    [h |-> BOARD_SIDE, w |-> BOARD_SIDE,
     from |-> [quad |-> _order_corners(corners)]]

\* cv2.resize(image[rows, cols], (512, 512)); cv2.error on an empty source
CropResize(rows, cols) ==
    LET region == [rows |-> rows, cols |-> cols]
    IN  IF IsEmptyRegion(region)
        THEN [raised |-> "cv2.error", value |-> NoValue]
        ELSE [raised |-> None, value |-> Resized(region, BOARD_SIDE)]

Returns(value) == [raised |-> None, value |-> value]

\* sorted(contours, key=cv2.contourArea, reverse=True): stable
RECURSIVE SortByAreaDesc(_)
SortByAreaDesc(contours) ==
    IF Len(contours) <= 1 THEN contours
    ELSE LET n      == Len(contours)
             front  == SortByAreaDesc(SubSeq(contours, 1, n - 1))
             last   == contours[n]
             before == SelectSeq(front, LAMBDA c : c.area >= last.area)
             after  == SelectSeq(front, LAMBDA c : c.area < last.area)
         IN  before \o <<last>> \o after

\* lines 49-61: the contour is large enough, a quad and roughly square
\* (0.7 < bw / bh < 1.3, the ratio taken as 0 when bh is 0)
ContourAccepted(image, contour) ==
    /\ ~(10 * contour.area < image.h * image.w)
    /\ contour.nverts = 4
    /\ contour.bh > 0
    /\ 7 * contour.bh < 10 * contour.bw
    /\ 10 * contour.bw < 13 * contour.bh

\* lines 28-65
_find_board_by_contours(image) ==
    IF image.contours = <<>> THEN NoValue
    ELSE LET sorted == SortByAreaDesc(image.contours)
             first5 == SubSeq(sorted, 1, Min(5, Len(sorted)))
             hits   == SelectSeq(first5,
                                 LAMBDA c : ContourAccepted(image, c))
         IN  IF hits = <<>> THEN NoValue
             ELSE _warp_board(image, hits[1].quad)

Abs(a) == IF a < 0 THEN -a ELSE a

\* a < tan(15 deg) * b for a >= 0, b >= 0, with tan(15 deg) = 2 - sqrt(3)
BelowTan15(a, b) == 2 * b - a > 0 /\ 3 * b * b < (2 * b - a) * (2 * b - a)

\* line 83: angle = |atan2(y2 - y1, x2 - x1)| in degrees; line 85
IsHorizontal(line) ==
    LET dx == line[3] - line[1]
        dy == line[4] - line[2]
    IN  \/ dx = 0 /\ dy = 0
        \/ BelowTan15(Abs(dy), Abs(dx))

\* line 87
IsVertical(line) ==
    LET dx == line[3] - line[1]
        dy == line[4] - line[2]
    IN  ~IsHorizontal(line) /\ BelowTan15(Abs(dx), Abs(dy))

SetMin(S) == CHOOSE a \in S : \A b \in S : a <= b

SetMax(S) == CHOOSE a \in S : \A b \in S : a >= b

\* lines 68-108
_find_board_by_lines(image) ==
    LET lines == image.lines
    IN  IF lines = <<>> THEN Returns(NoValue)
        ELSE IF Len(lines) < 8 THEN Returns(NoValue)
        ELSE LET h_lines == SelectSeq(lines, IsHorizontal)
                 v_lines == SelectSeq(lines, IsVertical)
                 \* (h[0] + h[1]) // 2 with h[0], h[1] the least and greatest y
                 h_positions ==
                     {(Min(l[2], l[4]) + Max(l[2], l[4])) \div 2 :
                         l \in Range(h_lines)}
                 v_positions ==
                     {(Min(l[1], l[3]) + Max(l[1], l[3])) \div 2 :
                         l \in Range(v_lines)}
             IN  IF Len(h_lines) < 4 \/ Len(v_lines) < 4
                 THEN Returns(NoValue)
                 ELSE IF Cardinality(h_positions) >= 2
                             /\ Cardinality(v_positions) >= 2
                 THEN LET y_min == SetMin(h_positions)
                          y_max == SetMax(h_positions)
                          x_min == SetMin(v_positions)
                          x_max == SetMax(v_positions)
                          w == x_max - x_min
                          h == y_max - y_min
                      IN  IF w > 50 /\ h > 50 /\ 7 * h < 10 * w
                                 /\ 10 * w < 13 * h
                          THEN CropResize(Slice(y_min, y_max, image.h),
                                          Slice(x_min, x_max, image.w))
                          ELSE Returns(NoValue)
                 ELSE Returns(NoValue)

MIN_BLOCK == 5

\* np.var of the block in row i and column j of the grid
VarianceAt(image, i, j) ==
    LET v == image.variance
    IN  IF v.win.r0 <= i /\ i <= v.win.r1 /\ v.win.c0 <= j /\ j <= v.win.c1
        THEN v.high ELSE v.low

\* twice np.median of the values of the map: the middle one twice, or
\* the sum of the two middle ones
TwiceMedian(var_map) ==
    LET cells == DOMAIN var_map
        n == Cardinality(cells)
        values == {var_map[c] : c \in cells}
        below == [a \in values |->
                     Cardinality({c \in cells : var_map[c] < a})]
        upto  == [a \in values |->
                     Cardinality({c \in cells : var_map[c] <= a})]
        Kth(k) == CHOOSE a \in values : below[a] < k /\ upto[a] >= k
    IN  IF n % 2 = 1 THEN 2 * Kth((n + 1) \div 2)
        ELSE Kth(n \div 2) + Kth((n \div 2) + 1)

\* lines 122-126 and 150-154: the centred square of side min(h, w)
CenterCrop(image) ==
    LET size    == Min(image.h, image.w)
        start_x == (image.w - size) \div 2
        start_y == (image.h - size) \div 2
    IN  CropResize(Slice(start_y, start_y + size, image.h),
                   Slice(start_x, start_x + size, image.w))

\* lines 129-146: the blocks whose variance exceeds 0.3 * median
BoardMask(image, block_size) ==
    LET cells == (0..((image.h \div block_size) - 1))
                     \X (0..((image.w \div block_size) - 1))
        var_map == [c \in cells |-> VarianceAt(image, c[1], c[2])]
        twice   == TwiceMedian(var_map)
    IN  {c \in cells : 20 * var_map[c] > 3 * twice}

\* lines 156-180: the square cut around the bounding box of the mask
MaskCrop(image, block_size, board_mask) ==
    LET r_min == SetMin({c[1] : c \in board_mask})
        r_max == SetMax({c[1] : c \in board_mask})
        c_min == SetMin({c[2] : c \in board_mask})
        c_max == SetMax({c[2] : c \in board_mask})
        y_min == r_min * block_size
        y_max == Min((r_max + 1) * block_size, image.h)
        x_min == c_min * block_size
        x_max == Min((c_max + 1) * block_size, image.w)
        board_h == y_max - y_min
        board_w == x_max - x_min
        size == Min(board_h, board_w)
        cy == (y_min + y_max) \div 2
        cx == (x_min + x_max) \div 2
        half == size \div 2
        y1 == Max(0, cy - half)
        y2 == Min(image.h, cy + half)
        x1 == Max(0, cx - half)
        x2 == Min(image.w, cx + half)
    IN  CropResize(Slice(y1, y2, image.h), Slice(x1, x2, image.w))

\* lines 111-180
_find_board_by_crop(image) ==
    LET block_size == Min(image.h, image.w) \div 20
    IN  IF block_size < MIN_BLOCK THEN CenterCrop(image)
        ELSE LET board_mask == BoardMask(image, block_size)
             IN  IF board_mask = {} THEN CenterCrop(image)
                 ELSE MaskCrop(image, block_size, board_mask)

\* find_board with the fallback left out: the line strategy's result is
\* returned as it is
find_board_no_fallback(image) ==
    LET byContours == _find_board_by_contours(image)
    IN  IF byContours # NoValue THEN Returns(byContours)
        ELSE _find_board_by_lines(image)

\* lines 8-25: the board (the first element of the pair returned); a
\* strategy that raises ends the call
find_board(image) ==
    LET byContours == _find_board_by_contours(image)
        byLines    == _find_board_by_lines(image)
    IN  IF byContours # NoValue THEN Returns(byContours)
        ELSE IF byLines.raised # None THEN byLines
        ELSE IF byLines.value # NoValue THEN byLines
        ELSE _find_board_by_crop(image)

--------------------------------------------------------------------------
(* piece_classifier.py                                                     *)
(*                                                                         *)
(* What the 64 cells show is a scene: per cell the measurements the        *)
(* heuristic takes (bg_diff, center_var, the colour and type its shape     *)
(* tests give) and the answer of the model (class and softmax value).      *)

BG_DIFF_MAX == 25

CENTER_VAR_MAX == 400

EMPTY_CONFIDENCE == 8500

PIECE_CONFIDENCE == 5500

\* lines 118-149
_classify_single_square(cell) ==
    IF cell.bg_diff < BG_DIFF_MAX /\ cell.center_var < CENTER_VAR_MAX
    THEN [class |-> "empty", confidence |-> EMPTY_CONFIDENCE]
    ELSE [class |-> cell.piece_color \o cell.piece_type,
          confidence |-> PIECE_CONFIDENCE]

\* lines 67-87
_classify_with_heuristic(cells, scene) ==
    [i \in 1..Len(cells) |-> _classify_single_square(scene[i])]

\* lines 47-65
_classify_with_model(cells, scene) ==
    [i \in 1..Len(cells) |->
        [class |-> scene[i].model_class, confidence |-> scene[i].model_prob]]

\* classify_squares without the test of the session: the model's answers
\* are used whether or not a model was loaded
classify_squares_model_only(sess, cells, scene) ==
    _classify_with_model(cells, scene)

\* lines 35-45
classify_squares(sess, cells, scene) ==
    IF sess # None THEN _classify_with_model(cells, scene)
    ELSE _classify_with_heuristic(cells, scene)

--------------------------------------------------------------------------
(* main.py: the two handlers *)

IsPrefix(prefix, chars) ==
    /\ Len(prefix) <= Len(chars)
    /\ SubSeq(chars, 1, Len(prefix)) = prefix

\* a content type is a sequence of characters; this one stands for None
NoContentType == <<None>>

\* line 64: not image.content_type or not ....startswith("image/")
NotAnImageType(content_type) ==
    \/ content_type = NoContentType
    \/ content_type = <<>>
    \/ ~IsPrefix(<<"i", "m", "a", "g", "e", "/">>, content_type)

Reply(status, detail, body) ==
    [status |-> status, detail |-> detail, body |-> body]

NoLocals ==
    [board_image |-> NoValue, squares |-> <<>>, classifications |-> <<>>,
     result |-> NoValue, response |-> NoValue]

\* detect_position (lines 49-110): the response and the locals assigned;
\* `found` is what find_board(cv_image) gives at line 76
detect_position(req, found, sess, scene) ==
    IF NotAnImageType(req.content_type)
    THEN [NoLocals EXCEPT !.response =
              Reply(400, "File must be an image", NoValue)]
    ELSE IF ~req.decodable
    THEN [NoLocals EXCEPT !.response =
              Reply(500, "Detection failed: cannot identify image file",
                    NoValue)]
    ELSE
        IF found.raised # None
        THEN [NoLocals EXCEPT !.response =
                  Reply(500, "Detection failed: " \o found.raised, NoValue)]
        ELSE IF found.value = NoValue
        THEN [NoLocals EXCEPT !.response =
                  Reply(422, "Could not detect a chess board in the image",
                        NoValue)]
        ELSE
        LET cut == split_into_squares(found.value)
        IN  IF cut.raised # None
            THEN [NoLocals EXCEPT
                      !.board_image = found.value,
                      !.response = Reply(500, "Detection failed: "
                                                \o cut.raised, NoValue)]
            ELSE
            LET cls == classify_squares(sess, cut.value, scene)
                out == classifications_to_fen(cls)
            IN  IF out.raised # None
                THEN [board_image |-> found.value, squares |-> cut.value,
                      classifications |-> cls, result |-> NoValue,
                      response |-> Reply(500, "Detection failed: "
                                                  \o out.raised, NoValue)]
                ELSE [board_image |-> found.value, squares |-> cut.value,
                      classifications |-> cls, result |-> out.value,
                      response |-> Reply(200, "", out.value)]

MAX_BRIGHTNESS == 255

\* detect_orientation (lines 114-147): an exception that leaves the
\* handler is the framework's 500; `found` is find_board(cv_image) at
\* line 123
detect_orientation(req, found, br_brightness, bl_brightness) ==
    IF ~req.decodable
    THEN [NoLocals EXCEPT !.response =
              Reply(500, "Internal Server Error", NoValue)]
    ELSE
        IF found.raised # None
        THEN [NoLocals EXCEPT !.response =
                  Reply(500, "Internal Server Error", NoValue)]
        ELSE IF found.value = NoValue
        THEN [NoLocals EXCEPT !.response =
                  Reply(422, "Could not detect a chess board", NoValue)]
        ELSE [NoLocals EXCEPT
                  !.board_image = found.value,
                  !.response =
                      Reply(200, "",
                            [orientation |->
                                 IF br_brightness > bl_brightness
                                 THEN "standard" ELSE "flipped",
                             confidence |->
                                 [num |-> Abs(br_brightness - bl_brightness),
                                  den |-> MAX_BRIGHTNESS]])]

--------------------------------------------------------------------------
(* Arguments of _warp_board and of split_into_squares *)

\* corner coordinates run over 0..MaxCoord
MaxCoord == 2

Points == {<<x, y>> : x \in 0..MaxCoord, y \in 0..MaxCoord}

Quads == [1..4 -> Points]

\* board sides run over 1..MaxSide, and the side find_board produces
MaxSide == 17

BoardSides == (1..MaxSide) \cup {BOARD_SIDE}

Boards == {[h |-> a, w |-> b] : a \in BoardSides, b \in BoardSides}

--------------------------------------------------------------------------
(* Uploads the handlers are called with *)

ImageSizes == {<<1, 1>>, <<64, 99>>, <<100, 100>>, <<120, 100>>, <<205, 250>>}

\* the contours of an image of size h x w: a quad over half the image,
\* a pentagon over six tenths, a quad over a twentieth, a quad twice as
\* wide as high
BigQuad(h, w) ==
    LET side == Min(h, w) - 1
    IN  [area |-> (h * w) \div 2, nverts |-> 4, bw |-> side + 1,
         bh |-> side + 1,
         quad |-> <<<<side, 0>>, <<side, side>>, <<0, side>>, <<0, 0>>>>]

Pentagon(h, w) ==
    [area |-> (6 * h * w) \div 10, nverts |-> 5, bw |-> w, bh |-> h,
     quad |-> <<>>]

SmallQuad(h, w) ==
    [area |-> (h * w) \div 20, nverts |-> 4, bw |-> 3, bh |-> 3,
     quad |-> <<<<0, 0>>, <<2, 0>>, <<2, 2>>, <<0, 2>>>>]

WideQuad(h, w) ==
    [area |-> (7 * h * w) \div 10, nverts |-> 4, bw |-> 20, bh |-> 10,
     quad |-> <<<<0, 0>>, <<19, 0>>, <<19, 9>>, <<0, 9>>>>]

ContourLists(h, w) ==
    {<<>>,
     <<SmallQuad(h, w)>>,
     <<Pentagon(h, w), SmallQuad(h, w)>>,
     <<SmallQuad(h, w), BigQuad(h, w)>>,
     <<BigQuad(h, w), WideQuad(h, w)>>,
     <<BigQuad(h, w), Pentagon(h, w), Pentagon(h, w), Pentagon(h, w),
       Pentagon(h, w), Pentagon(h, w)>>}

\* nh horizontal and nv vertical segments over a height x width window
GridLines(nh, nv, height, width) ==
    [k \in 1..nh |->
        <<0, ((k - 1) * height) \div (nh - 1),
          width, ((k - 1) * height) \div (nh - 1)>>]
    \o
    [k \in 1..nv |->
        <<((k - 1) * width) \div (nv - 1), 0,
          ((k - 1) * width) \div (nv - 1), height>>]

Diagonals(n, length) == [k \in 1..n |-> <<k, 0, k + length, length>>]

LineSets(h, w) ==
    {<<>>, GridLines(2, 2, 0, 0)}
    \cup (IF h > 80 /\ w > 80
          THEN {GridLines(5, 5, 80, 80), GridLines(4, 4, 40, 40),
                GridLines(8, 2, 80, 80), GridLines(5, 5, 80, 56),
                Diagonals(8, 60)}
          ELSE {})

NoWindow == [r0 |-> 1, r1 |-> 0, c0 |-> 1, c1 |-> 0]

\* windows of blocks in a grid of R rows and C columns
Windows(R, C) ==
    {[r0 |-> 0, r1 |-> R - 1, c0 |-> 0, c1 |-> C - 1],
     [r0 |-> 0, r1 |-> 0, c0 |-> 0, c1 |-> 0],
     [r0 |-> R - 1, r1 |-> R - 1, c0 |-> C - 1, c1 |-> C - 1],
     [r0 |-> R \div 4, r1 |-> (3 * R) \div 4, c0 |-> 1, c1 |-> C - 2],
     [r0 |-> 2, r1 |-> 4, c0 |-> 0, c1 |-> C - 1]}

ZeroVariance == [low |-> 0, high |-> 0, win |-> NoWindow]

Variances(h, w) ==
    LET block_size == Min(h, w) \div 20
    IN  IF block_size < MIN_BLOCK
        THEN {ZeroVariance}
        ELSE {ZeroVariance}
             \cup {[low |-> lo, high |-> 100, win |-> win] :
                      lo \in {0, 20, 40},
                      win \in Windows(h \div block_size, w \div block_size)}

\* per size: every contour list with every line set over a flat image,
\* and every variance grid where neither contours nor lines give a board
Images ==
    UNION {{[h |-> size[1], w |-> size[2], contours |-> c, lines |-> l,
             variance |-> ZeroVariance] :
               c \in ContourLists(size[1], size[2]),
               l \in LineSets(size[1], size[2])}
           \cup
           {[h |-> size[1], w |-> size[2], contours |-> c, lines |-> l,
             variance |-> v] :
               c \in {<<>>, <<Pentagon(size[1], size[2]),
                             SmallQuad(size[1], size[2])>>},
               l \in {<<>>, GridLines(2, 2, 0, 0)},
               v \in Variances(size[1], size[2])} : size \in ImageSizes}

PlainImage ==
    [h |-> 100, w |-> 100, contours |-> <<>>, lines |-> <<>>,
     variance |-> ZeroVariance]

ImagePng == <<"i", "m", "a", "g", "e", "/", "p", "n", "g">>

OtherTypes ==
    {NoContentType, <<>>,
     <<"t", "e", "x", "t", "/", "p", "l", "a", "i", "n">>,
     <<"i", "m", "a", "g", "e">>}

Requests ==
    {[content_type |-> ImagePng, decodable |-> TRUE, image |-> i] :
        i \in Images}
    \cup {[content_type |-> t, decodable |-> d, image |-> PlainImage] :
             t \in OtherTypes \cup {ImagePng}, d \in BOOLEAN}

WhiteClassSet == {"wp", "wn", "wb", "wr", "wq", "wk"}

PIECE_TO_FEN_lower(label) == LowerOf[PIECE_TO_FEN[label]]

\* what a cell shows: nothing, or the piece of a label
Shows(label) ==
    IF label = "empty"
    THEN [bg_diff |-> 10, center_var |-> 50, piece_color |-> "w",
          piece_type |-> "p", model_class |-> "empty", model_prob |-> 9990]
    ELSE [bg_diff |-> 60, center_var |-> 900,
          piece_color |-> IF label \in WhiteClassSet THEN "w" ELSE "b",
          piece_type |-> PIECE_TO_FEN_lower(label),
          model_class |-> label, model_prob |-> 9500]

Scenes ==
    {[i \in 1..64 |-> Shows(EmptyLabels[i])],
     [i \in 1..64 |-> Shows(StartLabels[i])],
     \* a textured empty board: the colour matches, the variance does not
     [i \in 1..64 |->
         [Shows("empty") EXCEPT !.center_var = CENTER_VAR_MAX,
                                !.model_prob = 8999]]}

Brightness == {50, 200}

--------------------------------------------------------------------------
(* The calls under study *)

AssemblerIdle == classifications = <<>> /\ result = NoValue

CornersIdle == pts = <<>> /\ rect = <<>>

SplitterIdle == board_image = [h |-> 0, w |-> 0] /\ squares = <<>>

HandlersIdle == session = None /\ request = NoValue /\ response = NoValue

Init ==
    /\ pc = "call"
    /\ raised = None
    /\ classifications \in Inputs
    /\ result = NoValue
    /\ CornersIdle
    /\ SplitterIdle
    /\ HandlersIdle

\* result = classifications_to_fen(classifications)
Assemble ==
    /\ pc = "call"
    /\ LET out == classifications_to_fen(classifications)
       IN  /\ result' = out.value
           /\ raised' = out.raised
    /\ pc' = "done"
    /\ UNCHANGED <<classifications, pts, rect, board_image, squares, session,
                   request, response>>

Next == Assemble

Spec == Init /\ [][Next]_vars

InitCorners ==
    /\ pc = "call"
    /\ raised = None
    /\ pts \in Quads
    /\ rect = <<>>
    /\ AssemblerIdle
    /\ SplitterIdle
    /\ HandlersIdle

\* _warp_board (lines 183-192): rect = _order_corners(corners)
WarpBoard ==
    /\ pc = "call"
    /\ rect' = _order_corners(pts)
    /\ pc' = "done"
    /\ UNCHANGED <<raised, classifications, result, pts, board_image, squares,
                   session, request, response>>

NextCorners == WarpBoard

SpecCorners == InitCorners /\ [][NextCorners]_vars

InitSplit ==
    /\ pc = "call"
    /\ raised = None
    /\ board_image \in Boards
    /\ squares = <<>>
    /\ AssemblerIdle
    /\ CornersIdle
    /\ HandlersIdle

\* squares = split_into_squares(board_image)
Split ==
    /\ pc = "call"
    /\ LET out == split_into_squares(board_image)
       IN  /\ squares' = out.value
           /\ raised' = out.raised
    /\ pc' = "done"
    /\ UNCHANGED <<classifications, result, pts, rect, board_image, session,
                   request, response>>

NextSplit == Split

SpecSplit == InitSplit /\ [][NextSplit]_vars

InitDetect ==
    /\ pc = "call"
    /\ raised = None
    /\ session \in {None, "onnx"}
    /\ request \in Requests
    /\ response = NoValue
    /\ AssemblerIdle
    /\ CornersIdle
    /\ board_image = NoValue
    /\ squares = <<>>

\* POST /detect
DetectPosition ==
    /\ pc = "call"
    /\ LET found == find_board(request.image)
       IN  \E scene \in Scenes :
           LET run == detect_position(request, found, session, scene)
           IN  /\ board_image' = run.board_image
               /\ squares' = run.squares
               /\ classifications' = run.classifications
               /\ result' = run.result
               /\ response' = run.response
    /\ pc' = "done"
    /\ UNCHANGED <<raised, pts, rect, session, request>>

\* POST /detect/orientation
DetectOrientation ==
    /\ pc = "call"
    /\ LET found == find_board(request.image)
       IN  \E br \in Brightness, bl \in Brightness :
           LET run == detect_orientation(request, found, br, bl)
           IN  /\ board_image' = run.board_image
               /\ response' = run.response
    /\ pc' = "done"
    /\ UNCHANGED <<raised, classifications, result, pts, rect, squares,
                   session, request>>

NextDetect == DetectPosition \/ DetectOrientation

SpecDetect == InitDetect /\ [][NextDetect]_vars

--------------------------------------------------------------------------
(* Properties of the assembler, stated on its argument and its result *)

Returned == pc = "done" /\ raised = None

LabelsOf(cls) == [i \in 1..Len(cls) |-> cls[i].class]

ResultFields ==
    {"fen", "confidence", "square_confidences", "low_confidence_squares",
     "needs_review", "validation_errors"}

\* the name of the square at input index i: file letter i mod 8,
\* rank 8 - i div 8
NameAtIndex(i) == FILE_NAMES[(i % 8) + 1] \o Str(PyStr(8 - (i \div 8)))

CountOf(cls, wanted) ==
    Cardinality({i \in 1..64 : cls[i].class \in wanted})

WhiteClasses == {"wp", "wn", "wb", "wr", "wq", "wk"}

BlackClasses == {"bp", "bn", "bb", "br", "bq", "bk"}

\* C1: the call fails with ValueError (InvalidInput) exactly when the list
\* does not hold 64 entries, it then returns no result at all, and a list
\* of 64 well-formed entries always yields a PositionResult.
C1_InvalidInputIffNot64 ==
    pc = "done" =>
        /\ (raised = "ValueError") <=> (Len(classifications) # 64)
        /\ raised \in {None, "ValueError"}
        /\ raised # None => result = NoValue
        /\ Len(classifications) = 64 =>
               /\ raised = None
               /\ result # NoValue
               /\ DOMAIN result = ResultFields

C1_Witness ==
    pc = "done" /\ Len(classifications) = 65 /\ raised = "ValueError"

FenToClass ==
    [P |-> "wp", N |-> "wn", B |-> "wb", R |-> "wr", Q |-> "wq", K |-> "wk",
     p |-> "bp", n |-> "bn", b |-> "bb", r |-> "br", q |-> "bq", k |-> "bk"]

\* one rank read back: a digit d is d empties, a letter is its piece
RECURSIVE ReparseRank(_)
ReparseRank(row) ==
    IF row = <<>> THEN <<>>
    ELSE IF Head(row) \in DOMAIN FenToClass
         THEN <<FenToClass[Head(row)]>> \o ReparseRank(Tail(row))
         ELSE Repeat("empty", DigitValue(Head(row))) \o ReparseRank(Tail(row))

ReparsePlacement(placement) ==
    LET rows == SplitOn(placement, "/")
    IN  IF Len(rows) # 8 THEN <<>>
        ELSE ReparseRank(rows[1]) \o ReparseRank(rows[2])
                 \o ReparseRank(rows[3]) \o ReparseRank(rows[4])
                 \o ReparseRank(rows[5]) \o ReparseRank(rows[6])
                 \o ReparseRank(rows[7]) \o ReparseRank(rows[8])

PlacementOf(fen) == SplitOn(fen, " ")[1]

\* C2: the placement field of the returned fen, read back rank by rank,
\* is the sequence of the 64 input labels; every run of empties is one
\* digit 1..8.
C2_PlacementRoundTrip ==
    Returned =>
        LET placement == PlacementOf(result.fen)
        IN  /\ ReparsePlacement(placement) = LabelsOf(classifications)
            /\ \A i \in 1..(Len(placement) - 1) :
                   ~(IsRowDigit(placement[i]) /\ IsRowDigit(placement[i + 1]))
            /\ \A i \in 1..Len(placement) :
                   \/ IsRowDigit(placement[i])
                   \/ placement[i] \in DOMAIN FenToClass
                   \/ placement[i] = "/"

C2_Witness ==
    /\ Returned
    /\ SplitOn(PlacementOf(result.fen), "/")[1] = <<"1", "P", "2", "k", "3">>

AllEmptyCall ==
    pc = "done" /\ classifications = Uniform(EmptyLabels, FULL)

\* C3 as claimed: 64 empties at confidence 1.0 give the fen
\* "8/8/8/8/8/8/8/8 w - 0 1", the entries "expected 1 white king, found 0"
\* and "expected 1 black king, found 0", and needs_review.
C3_AllEmptyAsClaimed ==
    AllEmptyCall =>
        /\ raised = None
        /\ Str(result.fen) = "8/8/8/8/8/8/8/8 w - 0 1"
        /\ "expected 1 white king, found 0" \in Range(result.validation_errors)
        /\ "expected 1 black king, found 0" \in Range(result.validation_errors)
        /\ result.needs_review = TRUE

\* C3 amended: 64 empties at confidence 1.0 give the fen
\* "8/8/8/8/8/8/8/8 w - - 0 1" (castling "-" and en passant "-" are two
\* fields), needs_review, and exactly the two entries
\* "Expected 1 white king, found 0" and "Expected 1 black king, found 0"
\* (capitalised as the code writes them).
C3_AllEmpty ==
    AllEmptyCall =>
        /\ raised = None
        /\ Str(result.fen) = "8/8/8/8/8/8/8/8 w - - 0 1"
        /\ result.validation_errors =
               <<"Expected 1 white king, found 0",
                 "Expected 1 black king, found 0">>
        /\ result.needs_review = TRUE

C3_Witness == AllEmptyCall /\ result # NoValue

CastlingFieldOf(fen) == SplitOn(fen, " ")[3]

\* C5: the castling field holds K iff e1 (index 60) is wk and h1 (63) is
\* wr, Q iff e1 is wk and a1 (56) is wr, k iff e8 (4) is bk and h8 (7) is
\* br, q iff e8 is bk and a8 (0) is br; the letters come in the order
\* K, Q, k, q; the field is "-" exactly when none applies; the fen ends
\* " w <castling> - 0 1"; the starting position gives
\* "rnbqkbnr/pppppppp/8/8/8/8/PPPPPPPP/RNBQKBNR w KQkq - 0 1".
C5_CastlingField ==
    Returned =>
        LET field == CastlingFieldOf(result.fen)
            label(i) == classifications[i + 1].class
            wK == label(60) = "wk" /\ label(63) = "wr"
            wQ == label(60) = "wk" /\ label(56) = "wr"
            bK == label(4) = "bk" /\ label(7) = "br"
            bQ == label(4) = "bk" /\ label(0) = "br"
        IN  /\ ("K" \in Range(field)) <=> wK
            /\ ("Q" \in Range(field)) <=> wQ
            /\ ("k" \in Range(field)) <=> bK
            /\ ("q" \in Range(field)) <=> bQ
            /\ \/ field = <<"-">>
               \/ field = SelectSeq(<<"K", "Q", "k", "q">>,
                                    LAMBDA c : c \in Range(field))
            /\ (field = <<"-">>) <=> ~(wK \/ wQ \/ bK \/ bQ)
            /\ result.fen = PlacementOf(result.fen) \o <<" ", "w", " ">>
                                \o field \o <<" ", "-", " ", "0", " ", "1">>
            /\ LabelsOf(classifications) = StartLabels =>
                   Str(result.fen) =
                       "rnbqkbnr/pppppppp/8/8/8/8/PPPPPPPP/RNBQKBNR w KQkq - 0 1"

C5_Witness ==
    /\ Returned
    /\ CastlingFieldOf(result.fen) = <<"K", "q">>
    /\ classifications[57].class = "br"

\* the entries the rules call for, from the labels by input index
ExpectedErrors(cls) ==
    LET wk == CountOf(cls, {"wk"})
        bk == CountOf(cls, {"bk"})
        wp == CountOf(cls, {"wp"})
        bp == CountOf(cls, {"bp"})
        w  == CountOf(cls, WhiteClasses)
        b  == CountOf(cls, BlackClasses)
    IN  (IF wk # 1
         THEN {"Expected 1 white king, found " \o Str(PyStr(wk))} ELSE {})
        \cup (IF bk # 1
         THEN {"Expected 1 black king, found " \o Str(PyStr(bk))} ELSE {})
        \cup {"Pawn on rank 8: " \o NameAtIndex(i) :
                 i \in {j \in 0..7 : cls[j + 1].class \in {"wp", "bp"}}}
        \cup {"Pawn on rank 1: " \o NameAtIndex(i) :
                 i \in {j \in 56..63 : cls[j + 1].class \in {"wp", "bp"}}}
        \cup (IF wp > 8
         THEN {"White has " \o Str(PyStr(wp)) \o " pawns (max 8)"} ELSE {})
        \cup (IF bp > 8
         THEN {"Black has " \o Str(PyStr(bp)) \o " pawns (max 8)"} ELSE {})
        \cup (IF w > 16
         THEN {"White has " \o Str(PyStr(w)) \o " pieces (max 16)"} ELSE {})
        \cup (IF b > 16
         THEN {"Black has " \o Str(PyStr(b)) \o " pieces (max 16)"} ELSE {})

\* C6: validation_errors holds, together in one list and once each, one
\* king entry per colour whose king count is not 1, one entry naming the
\* square for every pawn on rank 1 and on rank 8 (a pawn at input index 0
\* is "rank 8", square a8), one entry per colour with more than 8 pawns
\* and one per colour with more than 16 pieces, and nothing else; so the
\* list is empty iff no rule is violated.
C6_ValidationAccumulates ==
    Returned =>
        LET errors == result.validation_errors
            wanted == ExpectedErrors(classifications)
        IN  /\ Range(errors) = wanted
            /\ Len(errors) = Cardinality(wanted)
            /\ (errors = <<>>) <=> (wanted = {})
            /\ classifications[1].class \in {"wp", "bp"} =>
                   "Pawn on rank 8: a8" \in Range(errors)

C6_Witness ==
    /\ Returned
    /\ classifications[5].class = "wp"
    /\ classifications[61].class = "bp"
    /\ result.validation_errors =
           <<"Expected 1 white king, found 0",
             "Expected 1 black king, found 0",
             "Pawn on rank 1: e1",
             "Pawn on rank 8: e8",
             "White has 9 pawns (max 8)",
             "Black has 9 pawns (max 8)">>

\* C7: needs_review is true iff low_confidence_squares or
\* validation_errors is non-empty; a 64-entry call returns its fen
\* whatever the diagnostics are; the starting position at confidence 1.0
\* has needs_review false and no validation errors.
C7_NeedsReview ==
    pc = "done" /\ Len(classifications) = 64 =>
        /\ raised = None
        /\ result # NoValue
        /\ Len(result.fen) > 0
        /\ result.needs_review =
               (result.low_confidence_squares # <<>>
                    \/ result.validation_errors # <<>>)
        /\ classifications = Uniform(StartLabels, FULL) =>
               /\ result.needs_review = FALSE
               /\ result.validation_errors = <<>>

C7_Witness ==
    /\ Returned
    /\ result.validation_errors # <<>>
    /\ result.low_confidence_squares = <<>>
    /\ result.needs_review = TRUE

\* C8: low_confidence_squares is the names of the squares whose
\* confidence is strictly below 0.9 (9000 ten-thousandths), in scan order
\* a8..h1: 0.9 itself is left out, 0.8999 is listed.
C8_StrictThreshold ==
    Returned =>
        LET below == SelectSeq([i \in 1..64 |-> i],
                         LAMBDA i : classifications[i].confidence < 9000)
        IN  /\ result.low_confidence_squares =
                   [k \in 1..Len(below) |-> NameAtIndex(below[k] - 1)]
            /\ \A i \in 1..64 :
                   /\ classifications[i].confidence = 9000 =>
                          NameAtIndex(i - 1)
                              \notin Range(result.low_confidence_squares)
                   /\ classifications[i].confidence = 8999 =>
                          NameAtIndex(i - 1)
                              \in Range(result.low_confidence_squares)

C8_Witness ==
    /\ Returned
    /\ result.low_confidence_squares = <<"a8", "h1">>
    /\ classifications[2].confidence = 9000

--------------------------------------------------------------------------
(* Properties of _order_corners *)

MinOver(points, f(_)) ==
    CHOOSE v \in {f(points[i]) : i \in 1..4} :
        \A i \in 1..4 : v <= f(points[i])

MaxOver(points, f(_)) ==
    CHOOSE v \in {f(points[i]) : i \in 1..4} :
        \A i \in 1..4 : v >= f(points[i])

XPlusY(p) == p[1] + p[2]

XMinusY(p) == p[1] - p[2]

Ordered == pc = "done" /\ Len(rect) = 4

\* C4 as claimed: TL has the minimal x+y of the four points, BR the
\* maximal x+y, TR the minimal x-y and BL the maximal x-y.
C4_CornersAsClaimed ==
    Ordered =>
        /\ XPlusY(rect[1]) = MinOver(pts, XPlusY)
        /\ XPlusY(rect[3]) = MaxOver(pts, XPlusY)
        /\ XMinusY(rect[2]) = MinOver(pts, XMinusY)
        /\ XMinusY(rect[4]) = MaxOver(pts, XMinusY)

\* C4 amended: every slot holds one of the four input points; TL has the
\* minimal x+y, BR the maximal x+y, TR the maximal x-y (the minimal y-x)
\* and BL the minimal x-y (the maximal y-x).
C4_CornerOrdering ==
    Ordered =>
        /\ \A k \in 1..4 : rect[k] \in Range(pts)
        /\ XPlusY(rect[1]) = MinOver(pts, XPlusY)
        /\ XPlusY(rect[3]) = MaxOver(pts, XPlusY)
        /\ XMinusY(rect[2]) = MaxOver(pts, XMinusY)
        /\ XMinusY(rect[4]) = MinOver(pts, XMinusY)

C4_Witness ==
    /\ pc = "done"
    /\ pts = <<<<2, 2>>, <<0, 1>>, <<0, 0>>, <<2, 0>>>>
    /\ rect = <<<<0, 0>>, <<2, 0>>, <<2, 2>>, <<0, 1>>>>

--------------------------------------------------------------------------
(* Properties of split_into_squares *)

SquareBoardSplit == pc = "done" /\ board_image.h = board_image.w

\* what C10 says of a board of side `side` and the 64 cells returned
CellsInScanOrder(side, cells) ==
    /\ Len(cells) = 64
    /\ \A i \in 0..63 :
           LET size == side \div 8
               row  == i \div 8
               col  == i % 8
           IN  /\ cells[i + 1].from.rows.lo = row * size
               /\ cells[i + 1].from.rows.hi = (row + 1) * size
               /\ cells[i + 1].from.cols.lo = col * size
               /\ cells[i + 1].from.cols.hi = (col + 1) * size
               /\ square_name(SQUARES_A8_TO_H1[i + 1]) = NameAtIndex(i)
               /\ square_names[i + 1] = NameAtIndex(i)
    /\ <<square_names[61], square_names[64], square_names[57]>>
           = <<"e1", "h1", "a1">>
    /\ <<square_names[5], square_names[8], square_names[1]>>
           = <<"e8", "h8", "a8">>
    /\ <<square_names[1], square_names[2], square_names[8], square_names[9],
         square_names[64]>> = <<"a8", "b8", "h8", "a7", "h1">>

\* C10 as claimed: every square board yields 64 cells in scan order.
C10_SplitAsClaimed ==
    SquareBoardSplit =>
        /\ raised = None
        /\ CellsInScanOrder(board_image.h, squares)

\* C10 amended: a square board of side at least 8 yields exactly 64 cells
\* in scan order a8, b8, ..., h1: cell i is the region of row i div 8 and
\* column i mod 8 with side = board side div 8, and index i is the square
\* the assembler names (file letter i mod 8, rank 8 - i div 8; e1 = 60,
\* h1 = 63, a1 = 56, e8 = 4, h8 = 7, a8 = 0).  A square board of side
\* below 8 has cell side 0 and the call raises instead of returning.
C10_SplitScanOrder ==
    SquareBoardSplit =>
        /\ board_image.h >= 8 =>
               /\ raised = None
               /\ CellsInScanOrder(board_image.h, squares)
        /\ board_image.h < 8 => raised = "cv2.error" /\ squares = <<>>

C10_Witness ==
    /\ pc = "done"
    /\ board_image = [h |-> 17, w |-> 17]
    /\ raised = None
    /\ Len(squares) = 64
    /\ squares[10].from = [rows |-> [lo |-> 2, hi |-> 4],
                           cols |-> [lo |-> 2, hi |-> 4]]

--------------------------------------------------------------------------
(* Properties of find_board inside the handlers *)

\* a handler has run find_board on the upload: the image was decoded and
\* the content type was not refused
Located ==
    /\ pc = "done"
    /\ request.decodable
    /\ response.status # 400

BlockSizeOf(image) == Min(image.h, image.w) \div 20

\* C9: find_board always gives a board, never the absent value: the
\* board of the contour strategy when it finds one, else the board of
\* the line strategy when it finds one, else the board of the crop
\* strategy, which gives a 512 x 512 board on each of its paths (block
\* size below 5, empty mask, bounding box of the mask); no handler
\* answers 422.
C9_LocatorTotal ==
    Located =>
        LET image      == request.image
            byContours == _find_board_by_contours(image)
            byLines    == _find_board_by_lines(image)
            byCrop     == _find_board_by_crop(image)
        IN  /\ response.status # 422
            /\ board_image # NoValue
            /\ board_image.h = BOARD_SIDE /\ board_image.w = BOARD_SIDE
            /\ byLines.raised = None
            /\ byCrop.raised = None
            /\ byCrop.value # NoValue
            /\ byCrop.value.h = BOARD_SIDE /\ byCrop.value.w = BOARD_SIDE
            /\ board_image =
                   IF byContours # NoValue THEN byContours
                   ELSE IF byLines.value # NoValue THEN byLines.value
                   ELSE byCrop.value

\* POST /detect answered 200 on an image where contours and lines give
\* no board and the crop strategy cut the bounding box of a mask that
\* is not the whole grid
C9_Witness ==
    /\ Located
    /\ response.status = 200
    /\ result # NoValue
    /\ request.image.contours # <<>>
    /\ request.image.lines # <<>>
    /\ _find_board_by_contours(request.image) = NoValue
    /\ _find_board_by_lines(request.image).value = NoValue
    /\ BlockSizeOf(request.image) >= MIN_BLOCK
    /\ BoardMask(request.image, BlockSizeOf(request.image)) # {}
    /\ board_image = _find_board_by_crop(request.image).value
    /\ board_image # CenterCrop(request.image).value

--------------------------------------------------------------------------
(* Properties of the handlers' answers to bad uploads *)

\* the upload is not an image by its content type, or its bytes do not
\* decode
BadUpload ==
    NotAnImageType(request.content_type) \/ ~request.decodable

\* C11 as claimed: on POST /detect and on POST /detect/orientation an
\* upload whose content type is not an image, or whose bytes do not
\* decode, is answered 400 without find_board being run; 500 is answered
\* only when a stage of the pipeline fails, never for such an upload.
C11_ClientErrorsAsClaimed ==
    pc = "done" =>
        /\ BadUpload => response.status = 400 /\ board_image = NoValue
        /\ response.status = 500 => ~BadUpload

\* POST /detect answers 500 "Detection failed: ..." to an image/png upload
\* whose bytes do not decode
C11_UndecodableIs500 ==
    /\ pc = "done"
    /\ request.content_type = ImagePng
    /\ ~request.decodable
    /\ response.status = 500
    /\ response.detail = "Detection failed: cannot identify image file"

\* POST /detect/orientation runs find_board on a text/plain upload whose
\* bytes decode, and answers 200
C11_OrientationSkipsTypeTest ==
    /\ pc = "done"
    /\ NotAnImageType(request.content_type)
    /\ request.decodable
    /\ response.status = 200
    /\ board_image # NoValue

--------------------------------------------------------------------------
(* Properties of the crop of _find_board_by_crop *)

\* a handler got its board from the bounding-box path of
\* _find_board_by_crop: contours and lines gave none, the block size is
\* at least 5 and some block is marked
CroppedAroundMask ==
    /\ Located
    /\ _find_board_by_contours(request.image) = NoValue
    /\ _find_board_by_lines(request.image).value = NoValue
    /\ BlockSizeOf(request.image) >= MIN_BLOCK
    /\ BoardMask(request.image, BlockSizeOf(request.image)) # {}
    /\ board_image # NoValue

\* the pixel bounding box of the marked blocks
MaskBox(image) ==
    LET bs   == BlockSizeOf(image)
        mask == BoardMask(image, bs)
    IN  [y_min |-> SetMin({c[1] : c \in mask}) * bs,
         y_max |-> Min((SetMax({c[1] : c \in mask}) + 1) * bs, image.h),
         x_min |-> SetMin({c[2] : c \in mask}) * bs,
         x_max |-> Min((SetMax({c[2] : c \in mask}) + 1) * bs, image.w)]

\* C12 as claimed: on the bounding-box path the region cut is a square of
\* side min(bounding height, bounding width), centred on the bounding
\* box (to the pixel integer division allows), not empty and inside the
\* image.
C12_CropGeometryAsClaimed ==
    CroppedAroundMask =>
        LET box  == MaskBox(request.image)
            side == Min(box.y_max - box.y_min, box.x_max - box.x_min)
            rows == board_image.from.rows
            cols == board_image.from.cols
        IN  /\ rows.hi - rows.lo = side
            /\ cols.hi - cols.lo = side
            /\ Abs((rows.lo + rows.hi) - (box.y_min + box.y_max)) <= 1
            /\ Abs((cols.lo + cols.hi) - (box.x_min + box.x_max)) <= 1
            /\ side > 0
            /\ 0 <= rows.lo /\ rows.hi <= request.image.h
            /\ 0 <= cols.lo /\ cols.hi <= request.image.w

\* a 100 x 100 image, block size 5, one marked block in the corner: the
\* bounding box is 5 x 5 and the region cut is 4 x 4
C12_OddSideCrop ==
    /\ CroppedAroundMask
    /\ request.image.h = 100 /\ request.image.w = 100
    /\ MaskBox(request.image) =
           [y_min |-> 0, y_max |-> 5, x_min |-> 0, x_max |-> 5]
    /\ board_image.from = [rows |-> [lo |-> 0, hi |-> 4],
                           cols |-> [lo |-> 0, hi |-> 4]]

--------------------------------------------------------------------------
(* Properties of the heuristic classifier inside POST /detect *)

\* POST /detect ran to its end with no model loaded
HeuristicRun ==
    /\ pc = "done"
    /\ session = None
    /\ response.status = 200
    /\ result # NoValue

\* what C13 says the heuristic answers on a scene: empty at 0.85 when the
\* colour distance is below 25 and the variance below 400, else a piece
\* at 0.55
HeuristicAnswers(scene) ==
    [i \in 1..64 |->
        IF scene[i].bg_diff < 25 /\ scene[i].center_var < 400
        THEN Cls("empty", 8500)
        ELSE Cls(scene[i].piece_color \o scene[i].piece_type, 5500)]

\* C13: with no model session every classification has confidence 0.85
\* (empty: colour distance < 25 and variance < 400) or 0.55 (a piece),
\* both below the 0.9 cutoff; so the result lists all 64 squares, a8 to
\* h1, in low_confidence_squares and has needs_review true, whatever the
\* position and whatever validation_errors holds.  A cell at distance 10
\* and variance 50 is empty at 0.85.
C13_HeuristicAllLow ==
    HeuristicRun =>
        /\ classifications \in {HeuristicAnswers(scene) : scene \in Scenes}
        /\ \A i \in 1..64 :
               /\ classifications[i].confidence \in {8500, 5500}
               /\ classifications[i].confidence < LOW_CONFIDENCE
               /\ classifications[i].confidence = 8500
                      <=> classifications[i].class = "empty"
        /\ _classify_single_square(
               [bg_diff |-> 10, center_var |-> 50, piece_color |-> "w",
                piece_type |-> "p"]) = Cls("empty", 8500)
        /\ result.low_confidence_squares = square_names
        /\ result.needs_review = TRUE
        /\ response.body = result

\* the starting position seen by the heuristic: no validation error, all
\* 64 squares listed, needs_review true
C13_Witness ==
    /\ HeuristicRun
    /\ LabelsOf(classifications) = StartLabels
    /\ classifications[1].confidence = 5500
    /\ classifications[17].confidence = 8500
    /\ result.validation_errors = <<>>
    /\ Len(result.low_confidence_squares) = 64
    /\ result.needs_review = TRUE

--------------------------------------------------------------------------
(* Properties of the corners handed to the perspective transform *)

PairwiseDistinct(points) ==
    \A i \in 1..4, j \in 1..4 : i # j => points[i] # points[j]

\* C14 as claimed: for 4 pairwise-distinct points the corners returned by
\* _order_corners are pairwise distinct and are the four input points,
\* each in one slot, so _warp_board never gets a repeated corner.
C14_CornersDistinctAsClaimed ==
    (Ordered /\ PairwiseDistinct(pts)) =>
        /\ PairwiseDistinct(rect)
        /\ Range(rect) = Range(pts)

\* a square standing on a corner: (1, 0) has both the least x + y and the
\* least y - x and fills TL and TR, (1, 2) fills BL, and (0, 1) is dropped
C14_DiamondRepeatsCorner ==
    /\ Ordered
    /\ pts = <<<<1, 0>>, <<2, 1>>, <<1, 2>>, <<0, 1>>>>
    /\ PairwiseDistinct(pts)
    /\ rect = <<<<1, 0>>, <<1, 0>>, <<2, 1>>, <<1, 2>>>>

==========================================================================
